---- MODULE Spec2Model ----
(***************************************************************************)
(* Model of src/fireworks.py: Particle, Firework and the frame loop of     *)
(* main().                                                                 *)
(*                                                                         *)
(* Numbers.  Python floats are modelled as fixed-point integers in units   *)
(* of 1/Scale (x = 400 is 400000).  A product of two floats is rounded to  *)
(* the nearest unit (RoundDiv).  Integer fields (life, size, counters)     *)
(* are kept as integers.  The position and velocity of a Particle, which   *)
(* update() multiplies by decay again and again, carry a second integer:   *)
(* [u, n] stands for (u + n/Fine)/Scale with 0 <= n < Fine, so that the    *)
(* geometric decay is followed down to 1/(Scale*Fine), the resolution a    *)
(* float keeps over the hundred updates of a Particle's life.              *)
(*                                                                         *)
(* Angles are kept as the fraction of a full turn they denote,             *)
(* [num, den] standing for 2*pi*num/den, and sine and cosine are computed  *)
(* from that fraction.                                                     *)
(*                                                                         *)
(* Randomness.  Every call of the random module is an input.  The calls    *)
(* of one explode() are drawn as one stream, named by a seed, so that one  *)
(* action can make all of them.                                            *)
(***************************************************************************)
EXTENDS Integers, Sequences, FiniteSets, TLC

VARIABLES
    fw,            \* the Firework under test (unit level)
    fwUpdates,     \* number of update() calls made on fw
    pt,            \* the Particle under test (unit level)
    ptUpdates,     \* number of update() calls made on pt
    fireworks,     \* main(): the live collection
    auto_firework, \* main(): the auto-spawn frame counter
    running,       \* main(): the loop flag
    frame,         \* number of loop iterations completed
    clicks,        \* number of MOUSEBUTTONDOWN events processed
    nextId,        \* identity of the next Firework object constructed
    passStart,     \* ids of fireworks[:] when the last update pass started
    log,           \* calls made by the last update pass, in order
    lastThreshold  \* what random.randint(30, 60) returned in the last frame

vars == <<fw, fwUpdates, pt, ptUpdates, fireworks, auto_firework, running, frame,
          clicks, nextId, passStart, log, lastThreshold>>

unitVars == <<fw, fwUpdates, pt, ptUpdates>>
mainVars == <<fireworks, auto_firework, running, frame, clicks, nextId,
              passStart, log, lastThreshold>>

----------------------------------------------------------------------------
\* Program constants

Scale == 1000

WIDTH == 800
HEIGHT == 600

NumColors == 8

ParticleGravity == 100      \* 0.1
ParticleLife == 100
ParticleTrailCap == 10
ParticleSlack == 50         \* is_alive: y < HEIGHT + 50

FireworkAccel == 300        \* 0.3
FireworkTrailCap == 20

MinParticleCount == 30
MaxParticleCount == 60

----------------------------------------------------------------------------
\* Bounds of the model

MaxFwUpdates == 155   \* update() calls on the Firework under test
MaxPtUpdates == 104   \* update() calls on the Particle under test
MaxFrames == 125      \* iterations of main()'s loop
MaxClicks == 2        \* mouse clicks in one run

----------------------------------------------------------------------------
\* Arithmetic

\* a / b rounded to the nearest integer, b > 0
RoundDiv(a, b) == (2 * a + b) \div (2 * b)

\* product of two fixed-point numbers
Mul(a, b) == RoundDiv(a * b, Scale)

\* sin(2*pi*num/den) for 0 <= 2*num <= den, in units of 1/Scale
\* (Bhaskara's rational approximation; exact at 0, 1/12, 1/4, 5/12, 1/2 turn)
SinHalf(num, den) ==
    LET p == 2 * num * (den - 2 * num)
    IN  RoundDiv(16 * p * Scale, 5 * den * den - 4 * p)

\* sin(2*pi*num/den) for any num >= 0
Sin(num, den) ==
    LET n == num % den
    IN  IF 2 * n <= den THEN SinHalf(n, den)
        ELSE -SinHalf(2 * n - den, 2 * den)

\* cos(a) = sin(a + quarter turn)
Cos(num, den) == Sin(4 * num + den, 4 * den)

\* The fine part of a Particle's coordinates: units per 1/Scale
Fine == 1000000000

\* the fine number that equals the fixed-point number u
Num(u) == [u |-> u, n |-> 0]

\* the fine number u + n/Fine with its fine part brought into 0..Fine-1
Carry(u, n) == [u |-> u + n \div Fine, n |-> n % Fine]

\* a + b
NumAdd(a, b) == Carry(a.u + b.u, a.n + b.n)

\* a * d for a factor d in units of 1/Scale, 0 <= d < Scale; what lies
\* below the resolution is dropped
NumMul(a, d) ==
    LET hi == a.u * d
        lo == (hi % Scale) * (Fine \div Scale)
                  + (a.n \div Scale) * d
                  + ((a.n % Scale) * d) \div Scale
    IN  Carry(hi \div Scale, lo)

\* a < b
NumLess(a, b) == a.u < b.u \/ (a.u = b.u /\ a.n < b.n)

----------------------------------------------------------------------------
\* Particle

\* Particle.__init__; decay is the value random.uniform(0.8, 0.99) returns.
\* pid stands for the object's identity; angle, speed and site record the
\* constructor's arguments and the call that made the object.
NewParticle(pid, x, y, color, speed, angle, size, decay, site) ==
    [ pid   |-> pid,
      x     |-> Num(x),
      y     |-> Num(y),
      color |-> color,
      size  |-> size,
      vx    |-> Num(Mul(Cos(angle.num, angle.den), speed)),
      vy    |-> Num(Mul(Sin(angle.num, angle.den), speed)),
      life  |-> ParticleLife,
      decay |-> decay,
      trail |-> << >>,
      angle |-> angle,
      speed |-> speed,
      site  |-> site ]

\* PushTrail with the eviction one element late
PushTrailLate(trail, pos, cap) ==
    LET t == Append(trail, pos)
    IN  IF Len(t) > cap + 1 THEN Tail(t) ELSE t

\* trail.append(pos); if len(trail) > cap: trail.pop(0)
PushTrail(trail, pos, cap) ==
    LET t == Append(trail, pos)
    IN  IF Len(t) > cap THEN Tail(t) ELSE t

\* update without "self.vy += self.gravity"
ParticleUpdateNoGravity(p) ==
    LET vx1 == NumMul(p.vx, p.decay)
        vy1 == NumMul(p.vy, p.decay)
    IN  [ p EXCEPT !.trail = PushTrail(p.trail, <<p.x, p.y>>, ParticleTrailCap),
                   !.vx = vx1,
                   !.vy = vy1,
                   !.x = NumAdd(p.x, vx1),
                   !.y = NumAdd(p.y, vy1),
                   !.life = p.life - 1 ]

\* Particle.update
ParticleUpdate(p) ==
    LET vx1 == NumMul(p.vx, p.decay)
        vy1 == NumAdd(NumMul(p.vy, p.decay), Num(ParticleGravity))
    IN  [ p EXCEPT !.trail = PushTrail(p.trail, <<p.x, p.y>>, ParticleTrailCap),
                   !.vx = vx1,
                   !.vy = vy1,
                   !.x = NumAdd(p.x, vx1),
                   !.y = NumAdd(p.y, vy1),
                   !.life = p.life - 1 ]

\* is_alive with "or" for "and"
ParticleIsAliveOr(p) ==
    p.life > 0 \/ NumLess(p.y, Num((HEIGHT + ParticleSlack) * Scale))

\* Particle.is_alive
ParticleIsAlive(p) ==
    p.life > 0 /\ NumLess(p.y, Num((HEIGHT + ParticleSlack) * Scale))

\* int(a / b) for b > 0: the quotient with its fraction dropped
Trunc(a, b) == IF a >= 0 THEN a \div b ELSE -((-a) \div b)

\* the trail alpha with life not divided by 100
ParticleTrailAlphaRaw(i, len, life) == Trunc(255 * i * life, len)

\* int(255 * (i / len(self.trail)) * (self.life / 100))
ParticleTrailAlpha(i, len, life) == Trunc(255 * i * life, len * 100)

\* max(0, min(255, self.life * 2))
ParticleBodyAlpha(life) ==
    LET low == IF 255 < life * 2 THEN 255 ELSE life * 2
    IN  IF 0 > low THEN 0 ELSE low

\* Particle.draw: the alpha values it computes
ParticleDraw(p) ==
    (IF Len(p.trail) > 1
     THEN {ParticleTrailAlpha(i - 1, Len(p.trail), p.life) :
               i \in 1..Len(p.trail)}
     ELSE {})
    \cup {ParticleBodyAlpha(p.life)}

----------------------------------------------------------------------------
\* The random module, as inputs

\* One stream of the draws explode() makes: count is what
\* random.randint(30, 60) returns, seed names the other draws.
\*   seed 0: random.random() < 0.3 never holds (no scatter particle)
\*   seed 1: random.random() < 0.3 always holds (a scatter per primary)
\*   seed 2: it holds for three primaries in ten
NumSeeds == 3

\* random.uniform(2, 8), the i-th primary's speed
SpeedAt(seed, i) ==
    LET k == (i + seed) % 3
    IN  IF k = 0 THEN 2 * Scale ELSE IF k = 1 THEN 8 * Scale ELSE 5 * Scale

\* random.randint(2, 4), the i-th primary's size
SizeAt(seed, i) == 2 + ((i + 2 * seed) % 3)

\* random.random() < 0.3 for the i-th primary
ScatterAt(seed, i) ==
    IF seed = 0 THEN FALSE
    ELSE IF seed = 1 THEN TRUE
    ELSE (7 * i) % 10 < 3

\* random.uniform(0, 2 * math.pi), the i-th scatter's angle
RandomAngleAt(seed, i) == [num |-> (3 * i + seed) % 8, den |-> 8]

\* random.uniform(1, 5), the i-th scatter's speed
RandomSpeedAt(seed, i) == IF (i + seed) % 2 = 0 THEN 1 * Scale ELSE 5 * Scale

\* random.uniform(0.8, 0.99), the decay of the k-th particle constructed
DecayAt(seed, k) ==
    LET j == (k + seed) % 3
    IN  IF j = 0 THEN 990 ELSE IF j = 1 THEN 800 ELSE 900

----------------------------------------------------------------------------
\* Firework

\* Firework.__init__; vy is the value -random.uniform(15, 20) returns.
\* id stands for the object's identity; explodeCalls counts the calls of
\* explode() on the object, explodedUpdates the calls of update() on it
\* since it exploded.
NewFirework(id, x, target_y, color, vy) ==
    [ id           |-> id,
      x            |-> x,
      y            |-> HEIGHT * Scale,
      target_y     |-> target_y,
      color        |-> color,
      vx           |-> 0,
      vy           |-> vy,
      exploded     |-> FALSE,
      particles    |-> << >>,
      trail        |-> << >>,
      explodeCalls |-> 0,
      explodedUpdates |-> 0 ]

\* the angle with the full turn divided into count - 1 parts
PrimaryAngleClosed(i, count) == [num |-> i, den |-> count - 1]

\* angle = (2 * math.pi * i) / particle_count
PrimaryAngle(i, count) == [num |-> i, den |-> count]

\* the particles the i-th turn of explode()'s loop appends (i from 0)
BurstStep(f, rnd, i) ==
    LET size == SizeAt(rnd.seed, i)
        particle == NewParticle(2 * i, f.x, f.y, f.color,
                                SpeedAt(rnd.seed, i),
                                PrimaryAngle(i, rnd.count), size,
                                DecayAt(rnd.seed, 2 * i), "primary")
        random_particle == NewParticle(2 * i + 1, f.x, f.y, f.color,
                                RandomSpeedAt(rnd.seed, i),
                                RandomAngleAt(rnd.seed, i), size \div 2,
                                DecayAt(rnd.seed, 2 * i + 1), "scatter")
    IN  IF ScatterAt(rnd.seed, i)
        THEN <<particle, random_particle>>
        ELSE <<particle>>

RECURSIVE Burst(_, _, _, _)
\* what the turns lo..hi of explode()'s loop append, in order (the range
\* is halved to keep the evaluation shallow)
Burst(f, rnd, lo, hi) ==
    IF lo > hi THEN << >>
    ELSE IF lo = hi THEN BurstStep(f, rnd, lo)
    ELSE LET mid == (lo + hi) \div 2
         IN  Burst(f, rnd, lo, mid) \o Burst(f, rnd, mid + 1, hi)

\* explode without "self.exploded = True"
ExplodeNoFlag(f, rnd) ==
    [ f EXCEPT !.particles = f.particles \o Burst(f, rnd, 0, rnd.count - 1),
               !.explodeCalls = f.explodeCalls + 1 ]

\* Firework.explode
Explode(f, rnd) ==
    [ f EXCEPT !.exploded = TRUE,
               !.particles = f.particles \o Burst(f, rnd, 0, rnd.count - 1),
               !.explodeCalls = f.explodeCalls + 1 ]

\* the condition with strict comparisons
ReachedTargetStrict(vy, y, target_y) == vy > 0 \/ y < target_y

\* the condition without the altitude test
ReachedTargetApexOnly(vy, y, target_y) == vy >= 0

\* the condition with the apex noticed one update late
ReachedTargetPastApex(vy, y, target_y) == vy >= FireworkAccel \/ y <= target_y

\* the condition without the apex test
ReachedTargetAltitudeOnly(vy, y, target_y) == y <= target_y

\* the condition of the if in the ascending branch
ReachedTarget(vy, y, target_y) == vy >= 0 \/ y <= target_y

\* Firework.update, branch "not self.exploded"
Ascend(f, rnd) ==
    LET vy1 == f.vy + FireworkAccel
        y1  == f.y + vy1
        g   == [ f EXCEPT !.trail = PushTrail(f.trail, <<f.x, f.y>>,
                                              FireworkTrailCap),
                          !.vy = vy1,
                          !.y = y1 ]
    IN  IF ReachedTarget(vy1, y1, f.target_y) THEN Explode(g, rnd) ELSE g

\* index of the first element of list that is the object pid, 0 if none
IndexOf(list, pid, k) ==
    LET hits == {j \in k..Len(list) : list[j].pid = pid}
    IN  IF hits = {} THEN 0
        ELSE CHOOSE j \in hits : \A i \in hits : j <= i

\* list.remove(obj): drops the first element that is obj
RemoveAt(list, k) ==
    SubSeq(list, 1, k - 1) \o SubSeq(list, k + 1, Len(list))

\* the list with its k-th object in the state obj
ReplaceAt(list, k, obj) ==
    SubSeq(list, 1, k - 1) \o <<obj>> \o SubSeq(list, k + 1, Len(list))

\* the turn without the removal of a dead particle
UpdateOneKeepDead(list, copy, k) ==
    LET at == IndexOf(list, copy[k].pid, 1)
        p1 == ParticleUpdate(copy[k])
    IN  IF at = 0 THEN list ELSE ReplaceAt(list, at, p1)

\* the turn with "self.particles.pop(0)" for "self.particles.remove(particle)"
UpdateOnePopFirst(list, copy, k) ==
    LET at == IndexOf(list, copy[k].pid, 1)
        p1 == ParticleUpdate(copy[k])
        updated == IF at = 0 THEN list ELSE ReplaceAt(list, at, p1)
    IN  IF ~ParticleIsAlive(p1) /\ at # 0
        THEN RemoveAt(updated, 1)
        ELSE updated

\* one turn of "for particle in self.particles[:]", for the k-th element
\* of the copy.  The copy and the list hold the same objects: update()
\* changes the object in both, remove() takes it out of the list only.
UpdateOne(list, copy, k) ==
    LET at == IndexOf(list, copy[k].pid, 1)
        p1 == ParticleUpdate(copy[k])
        updated == IF at = 0 THEN list ELSE ReplaceAt(list, at, p1)
    IN  IF ~ParticleIsAlive(p1) /\ at # 0
        THEN RemoveAt(updated, at)
        ELSE updated

RECURSIVE UpdateParticles(_, _, _, _)
\* the turns lo..hi of the loop, in order: first lo..mid, then mid+1..hi
\* on the list the first half left.  (The range is halved to keep the
\* evaluation shallow; the test on Len(half) is always true and only
\* makes TLC finish the first half before it starts the second.)
UpdateParticles(list, copy, lo, hi) ==
    IF lo > hi THEN list
    ELSE IF lo = hi THEN UpdateOne(list, copy, lo)
    ELSE LET mid == (lo + hi) \div 2
             half == UpdateParticles(list, copy, lo, mid)
         IN  IF Len(half) >= 0
             THEN UpdateParticles(half, copy, mid + 1, hi)
             ELSE half

\* update with the physics step made in the exploded branch too
FireworkUpdateDrift(f, rnd) ==
    IF ~f.exploded
    THEN Ascend(f, rnd)
    ELSE [ f EXCEPT !.vy = f.vy + FireworkAccel,
                    !.y = f.y + f.vy + FireworkAccel,
                    !.particles = UpdateParticles(f.particles, f.particles, 1,
                                                  Len(f.particles)),
                    !.explodedUpdates = f.explodedUpdates + 1 ]

\* Firework.update
FireworkUpdate(f, rnd) ==
    IF ~f.exploded
    THEN Ascend(f, rnd)
    ELSE [ f EXCEPT !.particles = UpdateParticles(f.particles, f.particles, 1,
                                                 Len(f.particles)),
                    !.explodedUpdates = f.explodedUpdates + 1 ]

\* int(255 * (i / len(self.trail)))
RocketTrailAlpha(i, len) == Trunc(255 * i, len)

\* Firework.draw: the alpha values it and the draw() of its particles
\* compute
FireworkDraw(f) ==
    IF ~f.exploded
    THEN IF Len(f.trail) > 1
         THEN {RocketTrailAlpha(i - 1, Len(f.trail)) : i \in 1..Len(f.trail)}
         ELSE {}
    ELSE UNION {ParticleDraw(f.particles[j]) : j \in 1..Len(f.particles)}

\* is_alive without the test of the phase
FireworkIsAliveNoPhase(f) == Len(f.particles) > 0

\* Firework.is_alive
FireworkIsAlive(f) ==
    IF ~f.exploded THEN TRUE ELSE Len(f.particles) > 0

----------------------------------------------------------------------------
\* Inputs

\* streams of draws for one explode()
Rnds == [count : {MinParticleCount, MaxParticleCount}, seed : 0..(NumSeeds - 1)]

\* the streams an update() of f can draw from: an exploded Firework
\* makes no draw
DrawsFor(f) == IF f.exploded THEN {[count |-> MinParticleCount, seed |-> 0]}
               ELSE Rnds

\* values of -random.uniform(15, 20)
LaunchVys == {-15 * Scale, -17 * Scale, -20 * Scale}

\* target altitudes given to the Firework under test; the first is above
\* the apex of every launch
TestTargets == {-100 * Scale, 50 * Scale, 300 * Scale, 599 * Scale}

\* a Particle that is not under test
NoParticle == NewParticle(0, 0, 0, 1, 0, [num |-> 0, den |-> 1], 3, 800, "test")

\* a Firework that is not under test
NoFirework == NewFirework(0, 0, 0, 1, -15 * Scale)

\* main() before its loop starts
MainInit ==
    /\ fireworks = << >>
    /\ auto_firework = 0
    /\ running = TRUE
    /\ frame = 0
    /\ clicks = 0
    /\ nextId = 1
    /\ passStart = << >>
    /\ log = << >>
    /\ lastThreshold = 0

----------------------------------------------------------------------------
\* One Firework, updated again and again

FwInit ==
    /\ \E target_y \in TestTargets, vy \in LaunchVys :
           fw = NewFirework(1, 400 * Scale, target_y, 1, vy)
    /\ fwUpdates = 0
    /\ pt = NoParticle
    /\ ptUpdates = 0
    /\ MainInit

\* fw.update()
FwUpdate ==
    /\ fwUpdates < MaxFwUpdates
    /\ \E rnd \in DrawsFor(fw) : fw' = FireworkUpdate(fw, rnd)
    /\ fwUpdates' = fwUpdates + 1
    /\ UNCHANGED <<pt, ptUpdates>>
    /\ UNCHANGED mainVars

FwNext == FwUpdate

Spec == FwInit /\ [][FwNext]_vars

----------------------------------------------------------------------------
\* One Particle, updated again and again

\* values of random.uniform(0.8, 0.99)
Decays == {800, 900, 990}

\* directions given to the Particle under test: right, down, up
TestAngles == {[num |-> 0, den |-> 4], [num |-> 1, den |-> 4],
               [num |-> 3, den |-> 4]}

\* heights the Particle under test starts at
TestHeights == {300 * Scale, 640 * Scale}

PtInit ==
    /\ \E y \in TestHeights, angle \in TestAngles, decay \in Decays :
           pt = NewParticle(1, 400 * Scale, y, 1, 5 * Scale, angle, 3,
                            decay, "test")
    /\ ptUpdates = 0
    /\ fw = NoFirework
    /\ fwUpdates = 0
    /\ MainInit

\* pt.update()
PtUpdate ==
    /\ ptUpdates < MaxPtUpdates
    /\ pt' = ParticleUpdate(pt)
    /\ ptUpdates' = ptUpdates + 1
    /\ UNCHANGED <<fw, fwUpdates>>
    /\ UNCHANGED mainVars

PtNext == PtUpdate

SpecParticle == PtInit /\ [][PtNext]_vars

----------------------------------------------------------------------------
\* main(): the frame loop

\* index of the first element of list that is the Firework object id
IndexOfFirework(list, id) ==
    LET hits == {j \in 1..Len(list) : list[j].id = id}
    IN  IF hits = {} THEN 0
        ELSE CHOOSE j \in hits : \A i \in hits : j <= i

\* the ids of a list of Fireworks, in order
Ids(list) == [j \in 1..Len(list) |-> list[j].id]

\* one event of "for event in pygame.event.get()"; st holds fireworks,
\* running and nextId.  A click carries the mouse position and the draws
\* its Firework makes.
HandleEvent(st, event) ==
    IF event.type = "QUIT"
    THEN [st EXCEPT !.running = FALSE]
    ELSE IF event.type = "MOUSEBUTTONDOWN"
    THEN [st EXCEPT !.fireworks =
                        Append(st.fireworks,
                               NewFirework(st.nextId, event.x, event.y,
                                           event.color, event.vy)),
                    !.nextId = st.nextId + 1]
    ELSE st

RECURSIVE HandleEvents(_, _, _)
\* the events from the k-th on, in order
HandleEvents(st, events, k) ==
    IF k > Len(events) THEN st
    ELSE HandleEvents(HandleEvent(st, events[k]), events, k + 1)

\* the entries of the log of calls; a draw carries the alpha values it
\* computed
CallUpdate(f) == [op |-> "update", id |-> f.id, alphas |-> {}]
CallDraw(f) == [op |-> "draw", id |-> f.id, alphas |-> FireworkDraw(f)]
CallRemove(f) == [op |-> "remove", id |-> f.id, alphas |-> {}]

\* the turn with draw() called before update()
PassOneDrawFirst(st, copy, rnd, k) ==
    LET id == copy[k].id
        at == IndexOfFirework(st.list, id)
        f1 == FireworkUpdate(copy[k], rnd)
        updated == IF at = 0 THEN st.list ELSE ReplaceAt(st.list, at, f1)
        calls == st.log \o <<CallDraw(copy[k]), CallUpdate(f1)>>
    IN  IF ~FireworkIsAlive(f1)
        THEN [list |-> IF at = 0 THEN updated ELSE RemoveAt(updated, at),
              log  |-> Append(calls, CallRemove(f1))]
        ELSE [list |-> updated, log |-> calls]

\* the turn without the removal of a dead Firework
PassOneKeepDead(st, copy, rnd, k) ==
    LET id == copy[k].id
        at == IndexOfFirework(st.list, id)
        f1 == FireworkUpdate(copy[k], rnd)
        updated == IF at = 0 THEN st.list ELSE ReplaceAt(st.list, at, f1)
        calls == st.log \o <<CallUpdate(f1), CallDraw(f1)>>
    IN  [list |-> updated, log |-> calls]

\* the turn with a dead Firework removed before it is drawn
PassOnePruneFirst(st, copy, rnd, k) ==
    LET id == copy[k].id
        at == IndexOfFirework(st.list, id)
        f1 == FireworkUpdate(copy[k], rnd)
        updated == IF at = 0 THEN st.list ELSE ReplaceAt(st.list, at, f1)
    IN  IF ~FireworkIsAlive(f1)
        THEN [list |-> IF at = 0 THEN updated ELSE RemoveAt(updated, at),
              log  |-> st.log \o <<CallUpdate(f1), CallRemove(f1)>>]
        ELSE [list |-> updated,
              log  |-> st.log \o <<CallUpdate(f1), CallDraw(f1)>>]

\* the turn of "for firework in fireworks[:]" for the k-th element of the
\* copy; st holds the list and the log of calls.  The copy and the list
\* hold the same objects: update() changes the object in both, remove()
\* takes it out of the list only.
PassOne(st, copy, rnd, k) ==
    LET id == copy[k].id
        at == IndexOfFirework(st.list, id)
        f1 == FireworkUpdate(copy[k], rnd)
        updated == IF at = 0 THEN st.list ELSE ReplaceAt(st.list, at, f1)
        calls == st.log \o <<CallUpdate(f1), CallDraw(f1)>>
    IN  IF ~FireworkIsAlive(f1)
        THEN [list |-> IF at = 0 THEN updated ELSE RemoveAt(updated, at),
              log  |-> Append(calls, CallRemove(f1))]
        ELSE [list |-> updated, log |-> calls]

RECURSIVE Pass(_, _, _, _, _)
\* the turns lo..hi of the loop, in order: first lo..mid, then mid+1..hi
\* on what the first half left.  (The test on Len is always true and only
\* makes TLC finish the first half before it starts the second.)
Pass(st, copy, rnd, lo, hi) ==
    IF lo > hi THEN st
    ELSE IF lo = hi THEN PassOne(st, copy, rnd, lo)
    ELSE LET mid == (lo + hi) \div 2
             half == Pass(st, copy, rnd, lo, mid)
         IN  IF Len(half.list) >= 0
             THEN Pass(half, copy, rnd, mid + 1, hi)
             ELSE half

\* the test with the threshold one too high
SpawnDueLate(counter, threshold) == counter > threshold + 1

\* the test of "if auto_firework > random.randint(30, 60)"
SpawnDue(counter, threshold) == counter > threshold

\* one iteration of "while running", given what pygame.event.get()
\* returns, the value of random.randint(30, 60), the draws of the
\* auto-spawned Firework and the stream of the explosions of this frame
Frame(events, threshold, spawn, rnd) ==
    LET st0 == [fireworks |-> fireworks, running |-> running,
                nextId |-> nextId]
        st1 == HandleEvents(st0, events, 1)
        counter == auto_firework + 1
        auto == SpawnDue(counter, threshold)
        list1 == IF auto
                 THEN Append(st1.fireworks,
                             NewFirework(st1.nextId, spawn.x, spawn.target_y,
                                         spawn.color, spawn.vy))
                 ELSE st1.fireworks
        done == Pass([list |-> list1, log |-> << >>], list1, rnd,
                     1, Len(list1))
    IN  /\ fireworks' = done.list
        /\ log' = done.log
        /\ passStart' = Ids(list1)
        /\ auto_firework' = IF auto THEN 0 ELSE counter
        /\ running' = st1.running
        /\ nextId' = IF auto THEN st1.nextId + 1 ELSE st1.nextId
        /\ clicks' = clicks + (st1.nextId - nextId)
        /\ frame' = frame + 1
        /\ lastThreshold' = threshold

\* Inputs of the frame loop

\* a click at (x, y) whose Firework draws color and vy
Click(x, y, vy) ==
    [type |-> "MOUSEBUTTONDOWN", x |-> x, y |-> y, color |-> 1, vy |-> vy]

Quit == [type |-> "QUIT"]

\* a click at the bottom edge (its Firework explodes on its first update)
\* and one at mid height
LowClick == Click(400 * Scale, 599 * Scale, -15 * Scale)
MidClick == Click(200 * Scale, 300 * Scale, -17 * Scale)

\* the frames whose events hold clicks: the first two
ClickFrames == {0, 1}

\* what pygame.event.get() can return in this frame
EventsNow ==
    {<< >>, <<Quit>>}
    \cup (IF frame \in ClickFrames /\ clicks < MaxClicks
          THEN {<<LowClick>>, <<MidClick>>} ELSE {})
    \cup (IF frame \in ClickFrames /\ clicks + 1 < MaxClicks
          THEN {<<LowClick, LowClick>>} ELSE {})

\* values of random.randint(30, 60) in the long runs
MainThresholds == {30}

\* the draws of an auto-spawned Firework: x in 50..WIDTH-50, target_y in
\* 50..HEIGHT/2, a color, vy
AutoSpawns ==
    {[x |-> 50 * Scale, target_y |-> 50 * Scale, color |-> 2,
      vy |-> -15 * Scale],
     [x |-> (WIDTH - 50) * Scale, target_y |-> (HEIGHT \div 2) * Scale,
      color |-> NumColors, vy |-> -20 * Scale]}

\* the draws made only if a Firework is spawned
SpawnsFor(auto) ==
    IF auto THEN AutoSpawns
    ELSE {[x |-> 50 * Scale, target_y |-> 50 * Scale, color |-> 2,
           vy |-> -15 * Scale]}

\* streams of draws for the explosions in the long runs
MainRnds == {[count |-> MinParticleCount, seed |-> 2]}

MainFrame ==
    /\ running
    /\ frame < MaxFrames
    /\ \E events \in EventsNow, threshold \in MainThresholds :
           \E spawn \in SpawnsFor(SpawnDue(auto_firework + 1, threshold)),
              rnd \in MainRnds :
               Frame(events, threshold, spawn, rnd)
    /\ UNCHANGED unitVars

MainNext == MainFrame

LoopInit ==
    /\ MainInit
    /\ fw = NoFirework
    /\ fwUpdates = 0
    /\ pt = NoParticle
    /\ ptUpdates = 0

SpecMain == LoopInit /\ [][MainNext]_vars

----------------------------------------------------------------------------
\* main(): the frame loop over two auto-spawn cycles, with every draw of
\* the threshold free

\* iterations of main()'s loop in these runs
MaxAutoFrames == 70

\* values of random.randint(30, 60): the least and the greatest
AutoThresholds == {30, 60}

\* a click with the mouse outside the window: pygame.mouse.get_pos() is
\* read when the event is handled and is bounded by the screen only
OutClick == Click((WIDTH + 40) * Scale, -30 * Scale, -20 * Scale)

\* what pygame.event.get() can return in this frame
AutoEventsNow == IF frame = 0 THEN {<< >>, <<OutClick>>} ELSE {<< >>}

AutoFrame ==
    /\ running
    /\ frame < MaxAutoFrames
    /\ \E events \in AutoEventsNow, threshold \in AutoThresholds :
           \E spawn \in SpawnsFor(SpawnDue(auto_firework + 1, threshold)),
              rnd \in MainRnds :
               Frame(events, threshold, spawn, rnd)
    /\ UNCHANGED unitVars

AutoNext == AutoFrame

AutoInit == LoopInit

SpecAuto == AutoInit /\ [][AutoNext]_vars

----------------------------------------------------------------------------
\* Properties of one Firework (specification Spec)

IsPrimary(p) == p.site = "primary"

\* the Firework under test has just been exploded by its last update
JustExploded ==
    /\ fw.exploded
    /\ fw.particles # << >>
    /\ \A j \in 1..Len(fw.particles) : fw.particles[j].life = ParticleLife

\* C1: the exploded flag never goes back to false, explode() is called at
\* most once, and it is called by exactly the ascending update after whose
\* physics step vy >= 0 or y <= target_y holds: by no update before it
\* and by none after it.
C1Step ==
    /\ fw.exploded => fw'.exploded
    /\ fw'.explodeCalls <= 1
    /\ fw'.exploded <=> (fw'.explodeCalls = 1)
    /\ (fw'.explodeCalls = fw.explodeCalls + 1)
           <=> (~fw.exploded /\ (fw'.vy >= 0 \/ fw'.y <= fw'.target_y))
    /\ fw'.explodeCalls \in {fw.explodeCalls, fw.explodeCalls + 1}

TheoremC1 == [][C1Step]_vars

\* an exploded Firework that was updated again after its explosion
WitnessC1 ==
    /\ fw.exploded
    /\ fw.explodeCalls = 1
    /\ fw.particles # << >>
    /\ \A j \in 1..Len(fw.particles) : fw.particles[j].life < ParticleLife - 1

\* C2: a Firework that has not exploded owns no particle, and an update
\* brings a new particle into the collection only by calling explode().
C2NewParticle ==
    \E j \in 1..Len(fw'.particles) :
        \A i \in 1..Len(fw.particles) :
            fw.particles[i].pid # fw'.particles[j].pid

TheoremC2 ==
    /\ [](~fw.exploded => fw.particles = << >>)
    /\ [][C2NewParticle => fw'.explodeCalls = fw.explodeCalls + 1]_vars

\* a Firework still ascending after several updates
WitnessC2 ==
    /\ ~fw.exploded
    /\ fwUpdates >= 20
    /\ fw.particles = << >>

\* C3: a Particle's trail never holds more than 10 positions and a
\* Firework's ascent trail never more than 20.
TheoremC3 ==
    /\ Len(fw.trail) <= 20
    /\ \A j \in 1..Len(fw.particles) : Len(fw.particles[j].trail) <= 10

\* both trails full, each after more updates than its cap
WitnessC3 ==
    /\ fwUpdates > 60
    /\ Len(fw.trail) = 20
    /\ \E j \in 1..Len(fw.particles) :
           /\ Len(fw.particles[j].trail) = 10
           /\ fw.particles[j].life < ParticleLife - 15

\* C5: Firework.is_alive() is true while ascending; once exploded it is
\* false exactly when the particles collection is empty.
TheoremC5 ==
    /\ ~fw.exploded => FireworkIsAlive(fw)
    /\ fw.exploded => (~FireworkIsAlive(fw) <=> fw.particles = << >>)

\* an exploded Firework whose last particle has been removed
WitnessC5 ==
    /\ fw.exploded
    /\ fw.particles = << >>
    /\ ~FireworkIsAlive(fw)

\* C6: the Firework at x = 400 with target_y = 300 launched with vy = -17
\* explodes with y <= 300 and vy < 0, and its explosion creates between
\* 30 and 60 primary particles.
C6Launched ==
    /\ fw'.x = 400 * Scale
    /\ fw'.target_y = 300 * Scale
    /\ fw'.vy - FireworkAccel * fwUpdates' = -17 * Scale

C6Step ==
    (~fw.exploded /\ fw'.exploded /\ C6Launched) =>
        /\ fw'.y <= 300 * Scale
        /\ fw'.vy < 0
        /\ Len(SelectSeq(fw'.particles, IsPrimary)) \in 30..60

TheoremC6 == [][C6Step]_vars

\* that Firework, just exploded by its 23rd update
WitnessC6 ==
    /\ JustExploded
    /\ fw.x = 400 * Scale
    /\ fw.target_y = 300 * Scale
    /\ fwUpdates = 23
    /\ fw.vy - FireworkAccel * fwUpdates = -17 * Scale
    /\ fw.y <= 300 * Scale

\* C10: one explode() creates N primaries, 30 <= N <= 60, the i-th with
\* direction 2*pi*i/N and a size in 2..4; a scatter particle comes directly
\* after its primary and has that primary's size integer-divided by 2; the
\* burst holds between N and 2N particles, all at the explosion point.
C10Burst(f) ==
    LET P == f.particles
        prim == SelectSeq(P, IsPrimary)
        N == Len(prim)
    IN  /\ N \in 30..60
        /\ \A i \in 1..N :
               /\ prim[i].angle = [num |-> i - 1, den |-> N]
               /\ prim[i].size \in 2..4
        /\ \A j \in 1..Len(P) :
               P[j].site = "scatter" =>
                   /\ j > 1
                   /\ P[j - 1].site = "primary"
                   /\ P[j].size = P[j - 1].size \div 2
        /\ N <= Len(P)
        /\ Len(P) <= 2 * N
        /\ \A j \in 1..Len(P) : P[j].x = Num(f.x) /\ P[j].y = Num(f.y)

TheoremC10 == [][(~fw.exploded /\ fw'.exploded) => C10Burst(fw')]_vars

\* a burst just created in which some primaries have a scatter particle
\* and some have none
WitnessC10 ==
    /\ JustExploded
    /\ \E j \in 1..Len(fw.particles) : fw.particles[j].site = "scatter"
    /\ Len(fw.particles) < 2 * Len(SelectSeq(fw.particles, IsPrimary))

\* C15: one update() of an exploded Firework updates every particle it
\* owned when the call started exactly once, and leaves exactly those of
\* them that then have life > 0 and y < HEIGHT + 50, in their order; all
\* that remain are alive.
C15Keeps(p) ==
    p.life > 0 /\ NumLess(p.y, Num((HEIGHT + ParticleSlack) * Scale))

C15Step ==
    fw.exploded =>
        LET once == [j \in 1..Len(fw.particles) |->
                         ParticleUpdate(fw.particles[j])]
        IN  /\ fw'.particles = SelectSeq(once, C15Keeps)
            /\ \A j \in 1..Len(fw'.particles) :
                   ParticleIsAlive(fw'.particles[j])

TheoremC15 == [][C15Step]_vars

\* an exploded Firework, updated since, that has lost a primary particle
\* created between two particles it still owns
WitnessC15 ==
    /\ fw.exploded
    /\ \E a \in 1..(Len(fw.particles) - 1) :
           /\ fw.particles[a].life < ParticleLife
           /\ \E q \in (fw.particles[a].pid + 1)..(fw.particles[a + 1].pid - 1) :
                  q % 2 = 0

\* C16: update() never changes x, vx (which is 0), target_y or color; on
\* an exploded Firework it leaves y, vy and the ascent trail as they are
\* too: nothing but the particles changes.
C16Step ==
    /\ fw'.x = fw.x
    /\ fw.vx = 0
    /\ fw'.vx = 0
    /\ fw'.target_y = fw.target_y
    /\ fw'.color = fw.color
    /\ fw.exploded =>
           /\ fw'.y = fw.y
           /\ fw'.vy = fw.vy
           /\ fw'.trail = fw.trail
           /\ [fw' EXCEPT !.particles = fw.particles,
                          !.explodedUpdates = fw.explodedUpdates] = fw

TheoremC16 == [][C16Step]_vars

\* a Firework that exploded while rising and has been updated at least
\* fifty times since, its particles aged and its vy still negative
WitnessC16 ==
    /\ fw.exploded
    /\ fw.vy < 0
    /\ fw.trail # << >>
    /\ \E j \in 1..Len(fw.particles) :
           fw.particles[j].life <= ParticleLife - 50

\* C18 as stated: a Firework explodes at or above its target altitude;
\* y <= target_y holds in the update in which it explodes (and ever
\* after, y being left alone from then on).
OriginalC18 == fw.exploded => fw.y <= fw.target_y

\* C18 as amended: in the update in which a Firework explodes, either
\* y <= target_y holds or the Firework is at its apex, below its target,
\* with 0 <= vy < 0.3; the first is the case whenever target_y >= 233,
\* which the slowest launch (vy = -15, apex at y = 232.5) still reaches.
C18Step ==
    (~fw.exploded /\ fw'.exploded) =>
        /\ \/ fw'.y <= fw'.target_y
           \/ (fw'.vy >= 0 /\ fw'.vy < FireworkAccel)
        /\ fw'.target_y >= 233 * Scale => fw'.y <= fw'.target_y

TheoremC18 == [][C18Step]_vars

\* the Firework launched with vy = -15 towards target_y = 50, just
\* exploded at its apex y = 232.5, below its target
WitnessC18 ==
    /\ JustExploded
    /\ fw.target_y = 50 * Scale
    /\ fw.y = 232500
    /\ fw.vy = 0
    /\ fwUpdates = 50

\* C19: a Firework has exploded after at most 67 updates, whatever its
\* launch speed in 15..20 and its target; until then every update adds
\* 0.3 to vy.
TheoremC19 ==
    /\ [](fwUpdates >= 67 => fw.exploded)
    /\ [][~fw.exploded => fw'.vy = fw.vy + FireworkAccel]_vars

\* the Firework launched with vy = -20 towards a target above its apex,
\* just exploded by its 67th update with vy = 0.1
WitnessC19 ==
    /\ JustExploded
    /\ fwUpdates = 67
    /\ fw.vy = 100
    /\ fw.y > fw.target_y

----------------------------------------------------------------------------
\* Properties of one Particle (specification SpecParticle)

\* C4: every update() takes exactly 1 from life, which starts at 100, and
\* is_alive() is false whenever life <= 0, wherever the particle is.
TheoremC4 ==
    /\ pt.life = 100 - ptUpdates
    /\ pt.life <= 0 => ~ParticleIsAlive(pt)

\* a Particle whose life has run out while it is still above the floor
WitnessC4 ==
    /\ ptUpdates > 100
    /\ pt.life < 0
    /\ NumLess(pt.y, Num((HEIGHT + ParticleSlack) * Scale))

\* the Particle under test was created with speed 5 and angle 0
C14Case == pt.speed = 5 * Scale /\ pt.angle.num = 0

\* the floor line, HEIGHT + 50
C14Floor == Num((HEIGHT + ParticleSlack) * Scale)

\* C14: a Particle created with speed 5 and angle 0 starts with vx = 5 and
\* vy = 0; every update leaves vx > 0 and vy > 0, makes vy, x and y
\* strictly greater than before; the Particle is alive before the first
\* update that leaves life <= 0 or y >= HEIGHT + 50, and dead after that
\* update and after every later one.
C14Step ==
    C14Case =>
        /\ NumLess(Num(0), pt'.vx)
        /\ NumLess(Num(0), pt'.vy)
        /\ NumLess(pt.vy, pt'.vy)
        /\ NumLess(pt.x, pt'.x)
        /\ NumLess(pt.y, pt'.y)
        /\ ~ParticleIsAlive(pt') <=>
               (pt'.life <= 0 \/ ~NumLess(pt'.y, C14Floor))
        /\ ~ParticleIsAlive(pt) => ~ParticleIsAlive(pt')

----------------------------------------------------------------------------
\* Properties of the frame loop (specification SpecMain)

IsUpdate(e) == e.op = "update"
IsDraw(e) == e.op = "draw"
IsRemove(e) == e.op = "remove"

\* the ids of the calls of a log, in order
CallIds(calls) == [j \in 1..Len(calls) |-> calls[j].id]

\* the place of the Firework id in the copy the pass ran over
PlaceOf(id) == CHOOSE k \in 1..Len(passStart) : passStart[k] = id

TheoremC8 ==
    \A j \in 1..Len(fireworks) :
        ~(fireworks[j].exploded /\ fireworks[j].particles = << >>)

\* the frame before removed a dead Firework and kept others
WitnessC8 ==
    /\ \E i \in 1..Len(log) : log[i].op = "remove"
    /\ Len(fireworks) >= 2
    /\ \E j \in 1..Len(fireworks) : fireworks[j].exploded

\* C9: every Firework in the collection when the pass starts is updated
\* once and drawn once, in spawn order; one that is dead after its update
\* is drawn, then removed; the others stay, in order.
C9Removed == {log[r].id : r \in {q \in 1..Len(log) : log[q].op = "remove"}}

C9Stays(id) == id \notin C9Removed

TheoremC9 ==
    /\ \A k \in 1..(Len(passStart) - 1) : passStart[k] < passStart[k + 1]
    /\ CallIds(SelectSeq(log, IsUpdate)) = passStart
    /\ CallIds(SelectSeq(log, IsDraw)) = passStart
    /\ \A r \in 1..Len(log) :
           log[r].op = "remove" =>
               /\ r > 2
               /\ log[r - 1].op = "draw" /\ log[r - 1].id = log[r].id
               /\ log[r - 2].op = "update" /\ log[r - 2].id = log[r].id
    /\ \A r, q \in 1..Len(log) :
           (log[r].op = "remove" /\ log[q].op = "remove"
                /\ log[r].id = log[q].id) => r = q
    /\ Ids(fireworks) = SelectSeq(passStart, C9Stays)

\* a frame that auto-spawned a Firework and removed one that was not the
\* last of the pass
WitnessC9 ==
    /\ frame > 0
    /\ auto_firework = 0
    /\ Len(passStart) >= 3
    /\ passStart[Len(passStart)] = nextId - 1
    /\ \E r \in 1..Len(log) :
           /\ log[r].op = "remove"
           /\ log[r].id # passStart[Len(passStart)]
    /\ Len(fireworks) >= 2

\* C13: every alpha value a draw call of the frame loop computes (trail
\* and body of a particle, trail of a rocket) is an integer in 0..255.
TheoremC13 ==
    \A r \in 1..Len(log) : \A a \in log[r].alphas : a \in 0..255

\* a frame that drew an exploded Firework with a particle's full trail,
\* from alpha 0 for the oldest point to more than 200, and a rocket with
\* its full trail
WitnessC13 ==
    /\ \E r \in 1..Len(log), j \in 1..Len(fireworks) :
           /\ log[r].op = "draw"
           /\ fireworks[j].id = log[r].id
           /\ fireworks[j].exploded
           /\ \E k \in 1..Len(fireworks[j].particles) :
                  Len(fireworks[j].particles[k].trail) = ParticleTrailCap
           /\ 0 \in log[r].alphas
           /\ \E a \in log[r].alphas : a > 200
    /\ \E r \in 1..Len(log), j \in 1..Len(fireworks) :
           /\ log[r].op = "draw"
           /\ fireworks[j].id = log[r].id
           /\ ~fireworks[j].exploded
           /\ Len(fireworks[j].trail) = FireworkTrailCap
           /\ 242 \in log[r].alphas

\* the identities of the particles of a list
Pids(list) == {list[j].pid : j \in 1..Len(list)}

\* C20: an exploded Firework gains no particle and its particle count
\* never goes up; none of its particles outlives 100 updates made since
\* the explosion; the frame that removes its last particle removes the
\* Firework from the collection too, so that an exploded Firework is out
\* of the collection at the latest 100 frames after it exploded.
C20Step ==
    \A j \in 1..Len(fireworks) :
        LET f == fireworks[j]
            at == IndexOfFirework(fireworks', f.id)
        IN  f.exploded =>
                IF at = 0
                THEN \E r \in 1..Len(log') :
                         log'[r].op = "remove" /\ log'[r].id = f.id
                ELSE LET g == fireworks'[at]
                     IN  /\ g.exploded
                         /\ g.explodedUpdates = f.explodedUpdates + 1
                         /\ Pids(g.particles) \subseteq Pids(f.particles)
                         /\ Len(g.particles) <= Len(f.particles)
                         /\ g.particles # << >>

TheoremC20 ==
    /\ [](\A j \in 1..Len(fireworks) :
              fireworks[j].exploded =>
                  /\ fireworks[j].explodedUpdates < ParticleLife
                  /\ fireworks[j].particles # << >>
                  /\ \A k \in 1..Len(fireworks[j].particles) :
                         fireworks[j].particles[k].life =
                             ParticleLife - fireworks[j].explodedUpdates)
    /\ [][C20Step]_vars

\* a frame that removed a Firework, exploded a hundred frames before,
\* and left one that has been updated 99 times since its explosion
WitnessC20 ==
    /\ frame > ParticleLife
    /\ \E r \in 1..Len(log) : log[r].op = "remove"
    /\ \E j \in 1..Len(fireworks) :
           /\ fireworks[j].exploded
           /\ fireworks[j].explodedUpdates = ParticleLife - 1

----------------------------------------------------------------------------
\* Properties of the auto-spawn (specification SpecAuto)

\* the number of Fireworks the frame of this step auto-spawned
AutoSpawned == (nextId' - nextId) - (clicks' - clicks)

\* the Firework object id, if it is in list
FireworkOf(list, id) == list[IndexOfFirework(list, id)]

\* C11: the counter goes up by one per frame and back to 0 exactly when
\* a Firework is auto-spawned; a frame auto-spawns at most one; no
\* auto-spawn comes in fewer than 31 frames after the one before (or the
\* start) and one comes by the 61st frame; the spawned Firework has x in
\* 50..WIDTH-50 and target_y in 50..HEIGHT/2.
C11Step ==
    /\ AutoSpawned \in {0, 1}
    /\ auto_firework' = IF AutoSpawned = 1 THEN 0 ELSE auto_firework + 1
    /\ AutoSpawned = 1 => auto_firework + 1 >= 31
    /\ auto_firework + 1 >= 61 => AutoSpawned = 1
    /\ AutoSpawned = 1 =>
           /\ IndexOfFirework(fireworks', nextId' - 1) # 0
           /\ LET f == FireworkOf(fireworks', nextId' - 1)
              IN  /\ f.x >= 50 * Scale
                  /\ f.x <= (WIDTH - 50) * Scale
                  /\ f.target_y >= 50 * Scale
                  /\ 2 * f.target_y <= HEIGHT * Scale

TheoremC11 ==
    /\ [](auto_firework \in 0..60 /\ auto_firework <= frame)
    /\ [][C11Step]_vars

\* the first auto-spawn made by the 61st frame, every draw before it
\* having been 60
WitnessC11 ==
    /\ frame = 61
    /\ auto_firework = 0
    /\ nextId - 1 - clicks = 1
    /\ lastThreshold = 60

\* C17: within a cycle the threshold the counter is compared against is
\* one value: the draw of a frame is the draw of the frame before, unless
\* that frame auto-spawned and reset the counter.
OriginalC17 == [][auto_firework # 0 => lastThreshold' = lastThreshold]_vars

\* C12: every Firework in the live collection has 0 <= x <= WIDTH and
\* 0 <= target_y <= HEIGHT, whatever coordinates its spawn request carried.
OriginalC12 ==
    \A j \in 1..Len(fireworks) :
        /\ fireworks[j].x >= 0
        /\ fireworks[j].x <= WIDTH * Scale
        /\ fireworks[j].target_y >= 0
        /\ fireworks[j].target_y <= HEIGHT * Scale

====
